---- MODULE Spec2Model ----
(***************************************************************************)
(* Cognitive Commit, main process (src/main/index.ts): the configuration   *)
(* store, the save-config / save-log / get-logs handlers, the record       *)
(* document they write and read, and the git working copy they drive.      *)
(*                                                                         *)
(* Text is a sequence of one-character strings, so that rendering a        *)
(* document and matching it with the handlers' regular expressions are     *)
(* computed, not assumed.  Error messages are sequences of phrases.        *)
(* Every handler is one action; the steps that can fail for reasons the    *)
(* program does not control (file system, git, network) fail when the      *)
(* environment puts them in the set F of faults of that call.  The         *)
(* renderer's main screen (src/renderer/src/App.tsx) is modelled on top    *)
(* of save-log, with the calls it has sent and not yet got back.           *)
(***************************************************************************)
EXTENDS Integers, Sequences, FiniteSets, TLC

\* ------------------------------------------------------------------ bounds
\* handler calls in one run
MaxOps == 4
\* environment faults (I/O, git, network errors) injected in one run
MaxFaults == 1
\* last value of the wall clock (seconds)
MaxClock == 1
\* seconds per calendar day of the model's clock
DayLen == 2

\* ------------------------------------------------------------------- text
Undefined == <<"undefined">>

Present(x) == x # Undefined

DigitChars == <<"0", "1", "2", "3", "4", "5", "6", "7", "8", "9">>

Digits == {DigitChars[i] : i \in 1..10}

AlnumChars ==
  Digits \cup
  {"a", "b", "c", "d", "e", "f", "g", "h", "i", "j", "k", "l", "m",
   "n", "o", "p", "q", "r", "s", "t", "u", "v", "w", "x", "y", "z",
   "A", "B", "C", "D", "E", "F", "G", "H", "I", "J", "K", "L", "M",
   "N", "O", "P", "Q", "R", "S", "T", "U", "V", "W", "X", "Y", "Z"}

WhiteChars == {" ", "\n"}

DigitVal(c) == CHOOSE k \in 0..9 : DigitChars[k + 1] = c

\* String(n).padStart(2, '0') for 0 <= n < 100
Pad2(n) == <<DigitChars[((n \div 10) % 10) + 1], DigitChars[(n % 10) + 1]>>

\* a JavaScript number: NaN or an integer
NaN == [nan |-> TRUE, v |-> 0]

Num(n) == [nan |-> FALSE, v |-> n]

\* s.startsWith(p, i)   (i is 1-based)
StartsAt(s, p, i) ==
  /\ i + Len(p) - 1 <= Len(s)
  /\ \A k \in 1..Len(p) : s[i + k - 1] = p[k]

\* s.endsWith(p)
EndsWith(s, p) == Len(s) >= Len(p) /\ StartsAt(s, p, Len(s) - Len(p) + 1)

\* s.trim()
RECURSIVE TrimLeft(_)
TrimLeft(s) ==
  IF s # <<>> /\ Head(s) \in WhiteChars THEN TrimLeft(Tail(s)) ELSE s

RECURSIVE TrimRight(_)
TrimRight(s) ==
  IF s # <<>> /\ s[Len(s)] \in WhiteChars
    THEN TrimRight(SubSeq(s, 1, Len(s) - 1))
    ELSE s

Trim(s) == TrimRight(TrimLeft(s))

\* the longest prefix of s made of decimal digits
RECURSIVE DigitPrefix(_)
DigitPrefix(s) ==
  IF s # <<>> /\ Head(s) \in Digits
    THEN <<Head(s)>> \o DigitPrefix(Tail(s))
    ELSE <<>>

RECURSIVE DigitsValue(_)
DigitsValue(s) ==
  IF s = <<>> THEN 0
  ELSE 10 * DigitsValue(SubSeq(s, 1, Len(s) - 1)) + DigitVal(s[Len(s)])

\* parseInt(s, 10)
ParseInt(s) ==
  LET t == TrimLeft(s)
      neg == t # <<>> /\ Head(t) = "-"
      u == IF t # <<>> /\ Head(t) \in {"-", "+"} THEN Tail(t) ELSE t
      d == DigitPrefix(u)
  IN  IF d = <<>> THEN NaN
      ELSE Num(IF neg THEN 0 - DigitsValue(d) ELSE DigitsValue(d))

\* msg.includes(phrase), on messages kept as sequences of phrases
Includes(msg, phrase) == \E i \in 1..Len(msg) : msg[i] = phrase

\* ----------------------------------------------------------- record codec
\* getFormattedDate(): "YYYY-MM-DD HH:MM:SS", here day and second of the day
FormatDate(t) == Pad2(t \div DayLen) \o <<" ">> \o Pad2(t % DayLen)

\* new Date(s).getTime(): NaN unless s is a date in that format
ParseDate(s) ==
  IF /\ Len(s) = 5
     /\ s[3] = " "
     /\ \A i \in {1, 2, 4, 5} : s[i] \in Digits
    THEN Num(DigitsValue(SubSeq(s, 1, 2)) * DayLen + DigitsValue(SubSeq(s, 4, 5)))
    ELSE NaN

\* the template literal of save-log
Render(data) ==
  <<"-", "-", "-", "\n">>
  \o <<"d", "a", "t", "e", ":", " ", "\"">> \o data.date
  \o <<"\"", "\n", "t", "o", "p", "i", "c", ":", " ", "\"">> \o data.topic
  \o <<"\"", "\n", "d", "u", "r", "a", "t", "i", "o", "n", ":", " ", "\"">>
  \o data.duration
  \o <<"\"", "\n", "-", "-", "-", "\n", "\n", "#", "#", " ", "A", "c", "q",
       "u", "i", "s", "i", "t", "i", "o", "n", "\n">> \o data.acquisition
  \o <<"\n", "\n", "#", "#", " ", "D", "e", "b", "t", "\n">> \o data.debt
  \o <<"\n", "\n", "#", "#", " ", "N", "e", "x", "t", " ", "A", "c", "t", "i",
       "o", "n", "\n">> \o data.nextAction
  \o <<"\n">>

\* (.*?)" from position j: the index of the first double quote with no line
\* break before it, 0 when there is none
RECURSIVE CaptureEnd(_, _)
CaptureEnd(s, j) ==
  IF j > Len(s) THEN 0
  ELSE IF s[j] = "\"" THEN j
  ELSE IF s[j] = "\n" THEN 0
  ELSE CaptureEnd(s, j + 1)

\* content.match(/<key>"(.*?)"/): the leftmost match, searched from i
RECURSIVE MatchFrom(_, _, _)
MatchFrom(s, key, i) ==
  IF i + Len(key) - 1 > Len(s) THEN [found |-> FALSE, text |-> <<>>]
  ELSE IF StartsAt(s, key, i) /\ CaptureEnd(s, i + Len(key)) # 0
    THEN [found |-> TRUE,
          text |-> SubSeq(s, i + Len(key), CaptureEnd(s, i + Len(key)) - 1)]
  ELSE MatchFrom(s, key, i + 1)

Match(s, key) == MatchFrom(s, key, 1)

KeyDate == <<"d", "a", "t", "e", ":", " ", "\"">>

KeyTopic == <<"t", "o", "p", "i", "c", ":", " ", "\"">>

KeyDuration == <<"d", "u", "r", "a", "t", "i", "o", "n", ":", " ", "\"">>

\* the topic read with the key of the date
ParseLog_WrongKey(file, content) ==
  LET dateMatch == Match(content, KeyDate)
      topicMatch == Match(content, KeyDate)
      durationMatch == Match(content, KeyDuration)
  IN  [id |-> file,
       date |-> IF dateMatch.found THEN dateMatch.text ELSE <<>>,
       topic |-> IF topicMatch.found THEN topicMatch.text
                 ELSE <<"U", "n", "k", "n", "o", "w", "n">>,
       duration |-> IF durationMatch.found THEN ParseInt(durationMatch.text)
                    ELSE Num(0)]

\* one element of get-logs' files.map(...)
ParseLog(file, content) ==
  LET dateMatch == Match(content, KeyDate)
      topicMatch == Match(content, KeyTopic)
      durationMatch == Match(content, KeyDuration)
  IN  [id |-> file,
       date |-> IF dateMatch.found THEN dateMatch.text ELSE <<>>,
       topic |-> IF topicMatch.found THEN topicMatch.text
                 ELSE <<"U", "n", "k", "n", "o", "w", "n">>,
       duration |-> IF durationMatch.found THEN ParseInt(durationMatch.text)
                    ELSE Num(0)]

\* data.topic.replace(/[^a-zA-Z0-9]/g, '_')
SafeTopic(topic) ==
  [i \in 1..Len(topic) |-> IF topic[i] \in AlnumChars THEN topic[i] ELSE "_"]

\* the name made of the date and the topic, without the time of day
FileName_NoTime(t, topic) ==
  Pad2(t \div DayLen) \o <<"_">> \o SafeTopic(topic) \o <<".", "m", "d">>

\* `${datePart}_${timePart}_${safeTopic}.md`
FileName(t, topic) ==
  Pad2(t \div DayLen) \o <<"_">> \o Pad2(t % DayLen) \o <<"_">>
  \o SafeTopic(topic) \o <<".", "m", "d">>

\* path.join(dirPath, fileName)
PathJoin(dir, file) == <<dir, "/">> \o file

\* (a, b) => new Date(b.date).getTime() - new Date(a.date).getTime()
DateCompare(a, b) ==
  LET x == ParseDate(b.date)
      y == ParseDate(a.date)
  IN  IF x.nan \/ y.nan THEN NaN ELSE Num(x.v - y.v)

\* Array.prototype.sort with that comparator: a stable insertion sort; a
\* comparator result of NaN counts as 0
RECURSIVE InsertLog(_, _)
InsertLog(sorted, e) ==
  IF sorted = <<>> THEN <<e>>
  ELSE LET last == sorted[Len(sorted)]
           c == DateCompare(last, e)
       IN  IF ~c.nan /\ c.v > 0
             THEN InsertLog(SubSeq(sorted, 1, Len(sorted) - 1), e) \o <<last>>
             ELSE Append(sorted, e)

RECURSIVE SortLogs(_)
SortLogs(logs) ==
  IF logs = <<>> THEN <<>>
  ELSE InsertLog(SortLogs(SubSeq(logs, 1, Len(logs) - 1)), logs[Len(logs)])

\* ------------------------------------------------ state of the main process
VARIABLES
  now,         \* the wall clock, in seconds
  cfgFile,     \* the file at CONFIG_PATH
  disk,        \* per directory: whether it exists, its files, its git state
  remoteMain,  \* the remote URLs whose repository has a branch main
  resp,        \* the response of the last handler call and what it did
  ops,         \* handler calls made
  faults,      \* environment faults injected
  ui           \* the renderer: the main screen and its save-log calls

vars == <<now, cfgFile, disk, remoteMain, resp, ops, faults, ui>>

Paths == {"p1"}

Urls == {"u1"}

\* the inputs of the save-log calls: handleStart lets a session start only
\* with a topic that is not blank and minutes that parse to a positive number
Topics == {t \in {<<"a", " ">>, <<"a", "\"">>} : Trim(t) # <<>>}

Durations == {m \in {<<"2">>} : ~ParseInt(m).nan /\ ParseInt(m).v > 0}

Configs == [savePath : Paths \cup {""}, gitRepoUrl : Urls \cup {""}]

LogDatas(t) ==
  [date : {FormatDate(t)}, topic : Topics, duration : Durations,
   acquisition : {<<"x">>}, debt : {<<>>}, nextAction : {<<"y">>}]

NoData ==
  [date |-> <<>>, topic |-> <<>>, duration |-> <<>>,
   acquisition |-> <<>>, debt |-> <<>>, nextAction |-> <<>>]

DefaultConfig == [savePath |-> "", gitRepoUrl |-> ""]

EmptyFiles == [f \in {} |-> <<>>]

\* a directory that is no working copy.  git: the directory has its own .git;
\* inTree: it lies in the work tree of a repository further up.  ident, branch,
\* origin, upstream, index and head are those of the repository git finds
\* from the directory: its own, else the one further up
NoRepo(exists) ==
  [exists |-> exists, git |-> FALSE, inTree |-> FALSE, ident |-> {},
   branch |-> "", origin |-> "", upstream |-> FALSE,
   files |-> EmptyFiles, index |-> EmptyFiles, head |-> EmptyFiles]

\* git init in a directory without .git: a new, empty repository there, on
\* git's default branch, whatever lies further up
InitRepo(d) ==
  [d EXCEPT !.git = TRUE, !.branch = "master", !.ident = {}, !.origin = "",
            !.upstream = FALSE, !.index = EmptyFiles, !.head = EmptyFiles]

\* f with file name n holding content c
WithFile(f, n, c) == [m \in DOMAIN f \cup {n} |-> IF m = n THEN c ELSE f[m]]

\* MainScreen as mounted: the useState defaults, no session started, no
\* save-log call made.  session, saves, calls, aborted and docs are not state
\* of the component: they number the timer sessions and the SAVE LOG presses,
\* hold the save-log calls that have not returned, and remember which
\* sessions were aborted and which files were written for which session
MainScreen ==
  [mode |-> "idle", topic |-> <<>>, inputMinutes |-> <<"2", "5">>,
   timeLeft |-> 0, acquisition |-> <<>>, debt |-> <<>>, nextAction |-> <<>>,
   session |-> 0, saves |-> 0, calls |-> {}, aborted |-> {}, docs |-> {}]

\* ---------------------------------------------------- configuration store
\* the configuration read once, when the process starts, and kept
loadConfig_AtStartup(file) == DefaultConfig

\* the catch handing the error on instead of the default
loadConfig_Propagates(file) ==
  IF file.kind = "json" THEN file.val
  ELSE IF file.kind = "missing" THEN DefaultConfig
  ELSE [savePath |-> "", gitRepoUrl |-> "", error |-> "SyntaxError"]

\* loadConfig: the parsed file; the default when the file is missing, or when
\* reading or parsing it throws (kind "corrupt")
loadConfig(file) == IF file.kind = "json" THEN file.val ELSE DefaultConfig

\* a write that reports failure although the new content reached the file
saveConfigToFile_WritesThenFails(file, config, F) ==
  IF "cfgWrite" \in F
    THEN [ok |-> FALSE, hit |-> {"cfgWrite"},
          file |-> [kind |-> "json", val |-> config]]
  ELSE IF "cfgWritePartial" \in F
    THEN [ok |-> FALSE, hit |-> {"cfgWritePartial"},
          file |-> [kind |-> "corrupt", val |-> DefaultConfig]]
  ELSE [ok |-> TRUE, hit |-> {}, file |-> [kind |-> "json", val |-> config]]

\* saveConfigToFile: fs.writeFileSync opens with flag 'w'; a write that fails
\* before the open leaves the file as it was, one that fails after it leaves
\* a truncated file
saveConfigToFile(file, config, F) ==
  IF "cfgWrite" \in F THEN [ok |-> FALSE, hit |-> {"cfgWrite"}, file |-> file]
  ELSE IF "cfgWritePartial" \in F
    THEN [ok |-> FALSE, hit |-> {"cfgWritePartial"}, file |-> [kind |-> "corrupt", val |-> DefaultConfig]]
  ELSE [ok |-> TRUE, hit |-> {}, file |-> [kind |-> "json", val |-> config]]

\* ------------------------------------------------ a handler call in progress
\* d: the directory, rm: remoteMain, tr: the steps run so far and whether each
\* succeeded, hit: the faults met, err: the exception thrown (its message),
\* ret: the response of an early return
NoReturn ==
  [set |-> FALSE, success |-> FALSE, path |-> Undefined, error |-> Undefined]

Return(success, path, error) ==
  [set |-> TRUE, success |-> success, path |-> path, error |-> error]

StartRun(d, rm) ==
  [d |-> d, rm |-> rm, tr |-> <<>>, hit |-> {}, err |-> Undefined, ret |-> NoReturn]

Running(r) == r.err = Undefined /\ ~r.ret.set

StepError(step) == <<step, " failed">>

Throw(r, msg) == [r EXCEPT !.err = msg]

\* an entry of tr: the step, whether it succeeded, the message of its error
Done(step) == [step |-> step, ok |-> TRUE, msg |-> <<>>]

Broke(step, msg) == [step |-> step, ok |-> FALSE, msg |-> msg]

Ok(r, step, d2) == [r EXCEPT !.tr = Append(@, Done(step)), !.d = d2]

Fail(r, step, fault, msg) ==
  [r EXCEPT !.tr = Append(@, Broke(step, msg)),
            !.hit = @ \cup fault, !.err = msg]

\* run a step that throws when the environment faults it
Attempt(r, step, F, d2) ==
  IF step \in F THEN Fail(r, step, {step}, StepError(step)) ELSE Ok(r, step, d2)

\* catch (e) { console.warn(...) }: the exception is dropped
Swallow(r) == [r EXCEPT !.err = Undefined]

\* String(error) of an Error: its name, a colon, its message
ErrorToString(msg) == <<"Error: ">> \o msg

Failed(tr, step) == \E i \in 1..Len(tr) : tr[i].step = step /\ ~tr[i].ok

Did(tr, step) == \E i \in 1..Len(tr) : tr[i].step = step /\ tr[i].ok

Tried(tr, step) == Failed(tr, step) \/ Did(tr, step)

\* ------------------------------------------------------- save-log handler
\* if (!fs.existsSync(dirPath)) fs.mkdirSync(dirPath, { recursive: true })
SL_EnsureDir(r, F) ==
  IF ~Running(r) \/ r.d.exists THEN r
  ELSE Attempt(r, "mkdir", F, [r.d EXCEPT !.exists = TRUE])

\* if (!fs.existsSync(path.join(dirPath, '.git'))) await git.init()
SL_EnsureRepo(r, F) ==
  IF ~Running(r) \/ r.d.git THEN r
  ELSE Attempt(r, "init", F, InitRepo(r.d))

\* the two addConfig calls inside a try whose catch only warns, as save-config
\* has them
SL_Identity_Swallowed(r, F) ==
  LET r1 == IF ~Running(r) THEN r
            ELSE Attempt(r, "userName", F,
                         [r.d EXCEPT !.ident = @ \cup {"user.name"}])
      r2 == IF ~Running(r1) THEN r1
            ELSE Attempt(r1, "userEmail", F,
                         [r1.d EXCEPT !.ident = @ \cup {"user.email"}])
  IN  IF Running(r) THEN Swallow(r2) ELSE r

\* await git.addConfig('user.name', ...); await git.addConfig('user.email', ...)
SL_Identity(r, F) ==
  LET r1 == IF ~Running(r) THEN r
            ELSE Attempt(r, "userName", F,
                         [r.d EXCEPT !.ident = @ \cup {"user.name"}])
  IN  IF ~Running(r1) THEN r1
      ELSE Attempt(r1, "userEmail", F,
                   [r1.d EXCEPT !.ident = @ \cup {"user.email"}])

\* fs.writeFileSync(filePath, content, 'utf-8')
SL_Write(r, data, F, t) ==
  LET file == FileName(t, data.topic) IN
  IF ~Running(r) THEN r
  ELSE IF "writeFile" \in F
    THEN Fail(r, "writeFile", {"writeFile"}, StepError("writeFile"))
  ELSE IF "writeFilePartial" \in F
    THEN [Fail(r, "writeFile", {"writeFilePartial"}, StepError("writeFile"))
            EXCEPT !.d.files = WithFile(@, file, <<>>)]
  ELSE Ok(r, "writeFile", [r.d EXCEPT !.files = WithFile(@, file, Render(data))])

\* add and commit inside a try whose catch only logs
SL_Commit_Swallowed(r, F) ==
  LET r1 == IF ~Running(r) THEN r
            ELSE Attempt(r, "add", F, [r.d EXCEPT !.index = r.d.files])
  IN  IF ~Running(r1) THEN r1
      ELSE Swallow(Attempt(r1, "commit", F, [r1.d EXCEPT !.head = r1.d.index]))

\* git commit with nothing staged: git exits with status 1 and prints
\* "nothing to commit" on its standard output; simple-git rejects a task only
\* when the exit status is not 0 and something was written to standard error,
\* so the promise resolves (with an empty commit summary)
NothingToCommit(d) == d.index = d.head

Resolved(step, msg) == [step |-> step, ok |-> TRUE, msg |-> msg]

\* a commit that rejects when there is nothing to commit
SL_Commit_NothingThrows(r, F) ==
  LET r1 == IF ~Running(r) THEN r
            ELSE Attempt(r, "add", F, [r.d EXCEPT !.index = r.d.files])
  IN  IF ~Running(r1) THEN r1
      ELSE IF "commit" \in F THEN Fail(r1, "commit", {"commit"}, StepError("commit"))
      ELSE IF NothingToCommit(r1.d)
        THEN Fail(r1, "commit", {}, <<"nothing to commit">>)
      ELSE Ok(r1, "commit", [r1.d EXCEPT !.head = r1.d.index])

\* a failed add or commit putting the work tree back to the last commit
SL_Commit_CleansUp(r, F) ==
  LET r1 == IF ~Running(r) THEN r
            ELSE Attempt(r, "add", F, [r.d EXCEPT !.index = r.d.files])
      r2 == IF ~Running(r1) THEN r1
            ELSE IF "commit" \in F
              THEN Fail(r1, "commit", {"commit"}, StepError("commit"))
            ELSE IF NothingToCommit(r1.d)
              THEN [r1 EXCEPT !.tr = Append(@, Resolved("commit", <<"nothing to commit">>))]
            ELSE Ok(r1, "commit", [r1.d EXCEPT !.head = r1.d.index])
  IN  IF Running(r) /\ r2.err # Undefined
        THEN [r2 EXCEPT !.d.files = r.d.head, !.d.index = r.d.head]
        ELSE r2

\* await git.add('.'); await git.commit(`[Study] ...`)
SL_Commit(r, F) ==
  LET r1 == IF ~Running(r) THEN r
            ELSE Attempt(r, "add", F, [r.d EXCEPT !.index = r.d.files])
  IN  IF ~Running(r1) THEN r1
      ELSE IF "commit" \in F THEN Fail(r1, "commit", {"commit"}, StepError("commit"))
      ELSE IF NothingToCommit(r1.d)
        THEN [r1 EXCEPT !.tr = Append(@, Resolved("commit", <<"nothing to commit">>))]
      ELSE Ok(r1, "commit", [r1.d EXCEPT !.head = r1.d.index])

\* save-log leaving the branch as it finds it
SL_Branch_Skipped(r, F) == r

\* try { await git.raw(['branch', '-M', 'main']) } catch (e) { console.warn }
SL_Branch(r, F) ==
  IF ~Running(r) THEN r
  ELSE Swallow(Attempt(r, "branch", F, [r.d EXCEPT !.branch = "main"]))

\* git push -u origin main: needs the remote origin and a local branch main
\* with a commit; otherwise whether it works is up to the network
PushError(d, F) ==
  IF d.origin = "" THEN <<"fatal: 'origin' does not appear to be a git repository">>
  ELSE IF d.branch # "main" \/ DOMAIN d.head = {}
    THEN <<"error: src refspec main does not match any">>
  ELSE IF "push" \in F THEN StepError("push")
  ELSE Undefined

\* the push outside any try: its error reaches the outer catch
SL_Push_Uncaught(r, config, filePath, F) ==
  IF ~Running(r) \/ config.gitRepoUrl = "" THEN r
  ELSE LET e == PushError(r.d, F) IN
       IF e = Undefined
         THEN [Ok(r, "push", [r.d EXCEPT !.upstream = TRUE])
                 EXCEPT !.rm = @ \cup {r.d.origin}]
         ELSE Fail(r, "push", IF e = StepError("push") THEN {"push"} ELSE {}, e)

\* the catch of the push returning without the warning text
SL_Push_Silent(r, config, filePath, F) ==
  IF ~Running(r) \/ config.gitRepoUrl = "" THEN r
  ELSE LET e == PushError(r.d, F) IN
       IF e = Undefined
         THEN [Ok(r, "push", [r.d EXCEPT !.upstream = TRUE])
                 EXCEPT !.rm = @ \cup {r.d.origin}]
         ELSE [Swallow(Fail(r, "push",
                            IF e = StepError("push") THEN {"push"} ELSE {}, e))
                 EXCEPT !.ret = Return(TRUE, filePath, Undefined)]

\* if (config.gitRepoUrl) { try { push } catch (e) { return {success: true,
\* path, error: `Saved locally, but Git Push failed: ...`} } }
SL_Push(r, config, filePath, F) ==
  IF ~Running(r) \/ config.gitRepoUrl = "" THEN r
  ELSE LET e == PushError(r.d, F) IN
       IF e = Undefined
         THEN [Ok(r, "push", [r.d EXCEPT !.upstream = TRUE])
                 EXCEPT !.rm = @ \cup {r.d.origin}]
         ELSE [Swallow(Fail(r, "push",
                            IF e = StepError("push") THEN {"push"} ELSE {}, e))
                 EXCEPT !.ret = Return(TRUE, filePath,
                                       <<"Saved locally, but Git Push failed: ">> \o e)]

\* the catch returning the path as well
SL_Response_PathOnFailure(r, filePath) ==
  IF r.err # Undefined THEN Return(FALSE, filePath, ErrorToString(r.err))
  ELSE IF r.ret.set THEN r.ret
  ELSE Return(TRUE, filePath, Undefined)

\* return { success: true, path: filePath } / catch (error) { return
\* { success: false, error: String(error) } }
SL_Response(r, filePath) ==
  IF r.err # Undefined THEN Return(FALSE, Undefined, ErrorToString(r.err))
  ELSE IF r.ret.set THEN r.ret
  ELSE Return(TRUE, filePath, Undefined)

\* the body of the handler, from the loaded config on
SaveLogRun(config, data, d, rm, F, t) ==
  LET filePath == PathJoin(config.savePath, FileName(t, data.topic))
      r0 == StartRun(d, rm)
      r1 == IF config.savePath = ""
              THEN Throw(r0, <<"Save path is not configured.">>)
              ELSE r0
      r2 == SL_EnsureDir(r1, F)
      r3 == SL_EnsureRepo(r2, F)
      r4 == SL_Identity(r3, F)
      r5 == SL_Write(r4, data, F, t)
      r6 == SL_Commit(r5, F)
      r7 == SL_Branch(r6, F)
      r8 == SL_Push(r7, config, filePath, F)
  IN  [run |-> r8, out |-> SL_Response(r8, filePath), local |-> r7]

\* ---------------------------------------------------- save-config handler
\* if (!fs.existsSync(config.savePath)) fs.mkdirSync(config.savePath, ...)
SC_EnsureDir(r, F) ==
  IF ~Running(r) \/ r.d.exists THEN r
  ELSE Attempt(r, "mkdir", F, [r.d EXCEPT !.exists = TRUE])

\* git.checkIsRepo(): git rev-parse --is-inside-work-tree, true in any
\* directory of a work tree, whether .git is in it or further up
checkIsRepo(d) == d.git \/ d.inTree

\* const isRepo = await git.checkIsRepo(); if (!isRepo) await git.init()
SC_EnsureRepo(r, F) ==
  IF ~Running(r) \/ checkIsRepo(r.d) THEN r
  ELSE Attempt(r, "init", F, InitRepo(r.d))

\* await git.raw(['branch', '-M', 'main']), inside the outer try only
SC_Branch(r, F) ==
  IF ~Running(r) THEN r
  ELSE Attempt(r, "branch", F, [r.d EXCEPT !.branch = "main"])

\* try { addConfig user.name; addConfig user.email } catch (e) { console.warn }
SC_Identity(r, F) ==
  LET r1 == IF ~Running(r) THEN r
            ELSE Attempt(r, "userName", F,
                         [r.d EXCEPT !.ident = @ \cup {"user.name"}])
      r2 == IF ~Running(r1) THEN r1
            ELSE Attempt(r1, "userEmail", F,
                         [r1.d EXCEPT !.ident = @ \cup {"user.email"}])
  IN  IF Running(r) THEN Swallow(r2) ELSE r

\* getRemotes, then set-url when origin differs, addRemote when it is missing
SC_Remote(r, config, F) ==
  LET r1 == IF ~Running(r) THEN r ELSE Attempt(r, "getRemotes", F, r.d)
  IN  IF ~Running(r1) THEN r1
      ELSE IF r1.d.origin # ""
        THEN IF r1.d.origin # config.gitRepoUrl
               THEN Attempt(r1, "setUrl", F,
                            [r1.d EXCEPT !.origin = config.gitRepoUrl])
               ELSE r1
      ELSE Attempt(r1, "addRemote", F, [r1.d EXCEPT !.origin = config.gitRepoUrl])

\* git fetch origin main --depth 1: fails on a remote without a branch main,
\* otherwise whether it works is up to the network and the credentials
FetchError(d, rm, F) ==
  IF "fetch" \in F THEN <<"fatal: ", "Authentication failed">>
  ELSE IF d.origin \notin rm
    THEN <<"fatal: ", "couldn't find remote ref", " main">>
  ELSE Undefined

\* the catch of the fetch without the test for a missing remote ref
SC_FetchCaught_AlwaysWarns(errorMsg) ==
  Return(TRUE, Undefined,
         <<"Config saved, but connection check failed (Repo might be empty or Auth failed): ">>
         \o errorMsg)

\* the catch of the fetch: success for a missing remote ref, a warning otherwise
SC_FetchCaught(errorMsg) ==
  IF Includes(errorMsg, "couldn't find remote ref")
       \/ Includes(errorMsg, "fatal: couldn't find remote ref")
    THEN Return(TRUE, Undefined, Undefined)
    ELSE Return(TRUE, Undefined,
                <<"Config saved, but connection check failed (Repo might be empty or Auth failed): ">>
                \o errorMsg)

\* try { await git.fetch('origin', 'main', ...) } catch (e) { return ... }
SC_Fetch(r, F) ==
  IF ~Running(r) THEN r
  ELSE LET e == FetchError(r.d, r.rm, F) IN
       IF e = Undefined THEN Ok(r, "fetch", r.d)
       ELSE [Swallow(Fail(r, "fetch", IF "fetch" \in F THEN {"fetch"} ELSE {}, e))
               EXCEPT !.ret = SC_FetchCaught(e)]

\* catch (e) { return { success: false, error: `Git setup failed: ...` } }
\* and the final return { success: true }
SC_Response(r) ==
  IF r.err # Undefined
    THEN Return(FALSE, Undefined, <<"Git setup failed: ">> \o r.err)
  ELSE IF r.ret.set THEN r.ret
  ELSE Return(TRUE, Undefined, Undefined)

\* the remote set up and probed without the test of config.gitRepoUrl
SaveConfigRun_AlwaysRemote(config, d, rm, F) ==
  LET r0 == StartRun(d, rm)
      r1 == SC_EnsureDir(r0, F)
      r2 == SC_EnsureRepo(r1, F)
      r3 == SC_Branch(r2, F)
      r4 == SC_Identity(r3, F)
      r5 == SC_Fetch(SC_Remote(r4, config, F), F)
  IN  [run |-> r5, out |-> SC_Response(r5)]

\* the git setup of the handler: if (config.savePath) { try { ... } }
SaveConfigRun(config, d, rm, F) ==
  LET r0 == StartRun(d, rm)
      r1 == SC_EnsureDir(r0, F)
      r2 == SC_EnsureRepo(r1, F)
      r3 == SC_Branch(r2, F)
      r4 == SC_Identity(r3, F)
      r5 == IF config.gitRepoUrl = "" THEN r4
            ELSE SC_Fetch(SC_Remote(r4, config, F), F)
  IN  [run |-> r5, out |-> SC_Response(r5)]

\* -------------------------------------------------------- get-logs handler
\* the sequences that list every element of S once
Orders(S) ==
  {o \in [1..Cardinality(S) -> S] : \A i, j \in DOMAIN o : i # j => o[i] # o[j]}

\* fs.readdirSync(dirPath).filter(file => file.endsWith('.md')), in the order
\* the directory is read in, then files.map(...) and logs.sort(...)
ReadLogs(d, order) ==
  SortLogs([i \in DOMAIN order |-> ParseLog(order[i], d.files[order[i]])])

MdFiles(d) == {f \in DOMAIN d.files : EndsWith(f, <<".", "m", "d">>)}

\* the handler without its test of fs.existsSync(dirPath)
Listable_NoExistsCheck(file, dk) == loadConfig(file).savePath # ""

\* whether the handler gets as far as reading the directory: savePath is set
\* and the directory exists (otherwise it returns [])
Listable(file, dk) ==
  loadConfig(file).savePath # "" /\ dk[loadConfig(file).savePath].exists

\* the directory orders get-logs may meet
DirOrders(file, dk) ==
  IF Listable(file, dk) THEN Orders(MdFiles(dk[loadConfig(file).savePath]))
  ELSE {<<>>}

\* what the handler returns when no read throws
GetLogsResult(file, dk, order) ==
  IF Listable(file, dk) THEN ReadLogs(dk[loadConfig(file).savePath], order)
  ELSE <<>>

\* the handler without its try: the error of a read reaches the caller
GL_Response_Uncaught(thrown, logs) ==
  IF thrown
    THEN [out |-> Return(FALSE, Undefined, ErrorToString(StepError("read"))),
          logs |-> <<>>]
    ELSE [out |-> Return(TRUE, Undefined, Undefined), logs |-> logs]

\* return logs.sort(...) / catch (error) { console.error(...); return [] }
GL_Response(thrown, logs) ==
  [out |-> Return(TRUE, Undefined, Undefined),
   logs |-> IF thrown THEN <<>> ELSE logs]

\* ---------------------------------------------------------------- actions
\* The faults one call can meet together.  A fault of a step outside an inner
\* try ends the call, so it comes alone or after faults an inner catch dropped
\* (save-config: one of the two addConfig calls; save-log: the branch rename).
\* The handlers' guard F = hit keeps the sets a call really meets.
SaveConfigFaults ==
  {{}}
  \cup {{f} : f \in {"cfgWrite", "cfgWritePartial", "mkdir", "init", "branch",
                     "userName", "userEmail", "getRemotes", "setUrl",
                     "addRemote", "fetch"}}
  \cup {{f, g} : f \in {"userName", "userEmail"},
                 g \in {"getRemotes", "setUrl", "addRemote", "fetch"}}

SaveLogFaults ==
  {{f} : f \in {"mkdir", "init", "userName", "userEmail", "writeFile",
                "writeFilePartial", "add", "commit"}}
  \cup SUBSET {"branch", "push"}

GetLogsFaults == {{}, {"readdir"}, {"readFile"}}

\* the sets of faults the environment may still inject
FaultSets(S) == {F \in S : faults + Cardinality(F) <= MaxFaults}

Response(op, config, data, out, logs, tr) ==
  [op |-> op, config |-> config, data |-> data, success |-> out.success,
   path |-> out.path, error |-> out.error, logs |-> logs, tr |-> tr]

Record(r) ==
  /\ resp' = r
  /\ ops' = ops + 1

Init ==
  /\ now = 0
  /\ cfgFile = [kind |-> "missing", val |-> DefaultConfig]
  /\ disk = [p \in Paths |-> NoRepo(FALSE)]
  /\ remoteMain = {}
  /\ resp = Response("start", DefaultConfig, NoData,
                     Return(TRUE, Undefined, Undefined),
                     <<>>, <<>>)
  /\ ops = 0
  /\ faults = 0
  /\ ui = MainScreen

\* a second passes
Tick ==
  /\ now < MaxClock
  /\ now' = now + 1
  /\ UNCHANGED <<cfgFile, disk, remoteMain, resp, ops, faults, ui>>

\* ipcMain.handle('get-config')
GetConfig ==
  /\ ops < MaxOps
  /\ Record(Response("getConfig", loadConfig(cfgFile), NoData,
                     Return(TRUE, Undefined, Undefined),
                     <<>>, <<>>))
  /\ UNCHANGED <<now, cfgFile, disk, remoteMain, faults, ui>>

\* save-config putting the old configuration back when the git setup fails
SaveConfig_Reverts(config, F) ==
  LET w == saveConfigToFile(cfgFile, config, F)
      setup == w.ok /\ config.savePath # ""
      g == IF setup
             THEN SaveConfigRun(config, disk[config.savePath], remoteMain, F)
             ELSE [run |-> StartRun(NoRepo(FALSE), remoteMain),
                   out |-> Return(TRUE, Undefined, Undefined)]
      out == IF w.ok THEN g.out
             ELSE Return(FALSE, Undefined, <<"Failed to write config file">>)
      tr == <<IF w.ok THEN Done("writeConfig")
              ELSE Broke("writeConfig", StepError("writeConfig"))>> \o g.run.tr
  IN  /\ ops < MaxOps
      /\ F = w.hit \cup g.run.hit
      /\ cfgFile' = IF g.run.err # Undefined THEN cfgFile ELSE w.file
      /\ disk' = IF setup THEN [disk EXCEPT ![config.savePath] = g.run.d] ELSE disk
      /\ faults' = faults + Cardinality(F)
      /\ Record(Response("saveConfig", config, NoData, out, <<>>, tr))
      /\ UNCHANGED <<now, remoteMain, ui>>

\* ipcMain.handle('save-config')
SaveConfig(config, F) ==
  LET w == saveConfigToFile(cfgFile, config, F)
      setup == w.ok /\ config.savePath # ""
      g == IF setup
             THEN SaveConfigRun(config, disk[config.savePath], remoteMain, F)
             ELSE [run |-> StartRun(NoRepo(FALSE), remoteMain),
                   out |-> Return(TRUE, Undefined, Undefined)]
      out == IF w.ok THEN g.out
             ELSE Return(FALSE, Undefined, <<"Failed to write config file">>)
      tr == <<IF w.ok THEN Done("writeConfig")
              ELSE Broke("writeConfig", StepError("writeConfig"))>> \o g.run.tr
  IN  /\ ops < MaxOps
      /\ F = w.hit \cup g.run.hit
      /\ cfgFile' = w.file
      /\ disk' = IF setup THEN [disk EXCEPT ![config.savePath] = g.run.d] ELSE disk
      /\ faults' = faults + Cardinality(F)
      /\ Record(Response("saveConfig", config, NoData, out, <<>>, tr))
      /\ UNCHANGED <<now, remoteMain, ui>>

\* ipcMain.handle('save-log')
SaveLog(data, F) ==
  LET config == loadConfig(cfgFile)
      d == IF config.savePath = "" THEN NoRepo(FALSE) ELSE disk[config.savePath]
      g == SaveLogRun(config, data, d, remoteMain, F, now)
  IN  /\ ops < MaxOps
      /\ F = g.run.hit
      /\ disk' = IF config.savePath = "" THEN disk
                 ELSE [disk EXCEPT ![config.savePath] = g.run.d]
      /\ remoteMain' = g.run.rm
      /\ faults' = faults + Cardinality(F)
      /\ Record(Response("saveLog", config, data, g.out, <<>>, g.run.tr))
      /\ UNCHANGED <<now, cfgFile, ui>>

\* ipcMain.handle('get-logs')
GetLogs(F) ==
  LET config == loadConfig(cfgFile)
      listed == Listable(cfgFile, disk)
      d == IF listed THEN disk[config.savePath] ELSE NoRepo(FALSE)
      thrown == F # {}
      tr == IF ~listed THEN <<>>
            ELSE IF "readdir" \in F
              THEN <<Broke("readdir", StepError("readdir"))>>
            ELSE IF "readFile" \in F
              THEN <<Done("readdir"), Broke("readFile", StepError("readFile"))>>
            ELSE <<Done("readdir")>>
  IN  /\ ops < MaxOps
      /\ F # {} => listed
      /\ Cardinality(F) <= 1
      /\ "readFile" \in F => MdFiles(d) # {}
      /\ \E order \in DirOrders(cfgFile, disk) :
           LET g == GL_Response(thrown, GetLogsResult(cfgFile, disk, order))
           IN  Record(Response("getLogs", config, NoData, g.out, g.logs, tr))
      /\ faults' = faults + Cardinality(F)
      /\ UNCHANGED <<now, cfgFile, disk, remoteMain, ui>>

Next ==
  \/ Tick
  \/ GetConfig
  \/ \E config \in Configs : \E F \in FaultSets(SaveConfigFaults) :
       SaveConfig(config, F)
  \/ \E data \in LogDatas(now) : \E F \in FaultSets(SaveLogFaults) :
       SaveLog(data, F)
  \/ \E F \in FaultSets(GetLogsFaults) : GetLogs(F)

Spec == Init /\ [][Next]_vars

\* ------------------------------------------- two directories, two remotes
\* The handlers again, with a second save directory and a second remote URL to
\* switch to, one topic, and the network (the push) as the only fault.
AllPaths == Paths \cup {"p2"}

AllUrls == Urls \cup {"u2"}

PathConfigs == [savePath : AllPaths, gitRepoUrl : AllUrls \cup {""}]

PathDatas(t) == {data \in LogDatas(t) : data.topic = <<"a", " ">>}

InitPaths ==
  /\ now = 0
  /\ cfgFile = [kind |-> "missing", val |-> DefaultConfig]
  /\ disk = [p \in AllPaths |-> NoRepo(FALSE)]
  /\ remoteMain = {}
  /\ resp = Response("start", DefaultConfig, NoData,
                     Return(TRUE, Undefined, Undefined),
                     <<>>, <<>>)
  /\ ops = 0
  /\ faults = 0
  /\ ui = MainScreen

NextPaths ==
  \/ GetConfig
  \/ \E config \in PathConfigs : SaveConfig(config, {})
  \/ \E data \in PathDatas(now) : \E F \in FaultSets({{}, {"push"}}) :
       SaveLog(data, F)
  \/ GetLogs({})

SpecPaths == InitPaths /\ [][NextPaths]_vars

\* ------------------------------------------------- a directory as found
\* get-logs on a save directory as the user may have chosen it: besides
\* records written by save-log it can hold a file a failed write left empty,
\* a record cut short, and .md files that are no records at all.
\* files drawn into the directory
MaxFiles == 3

\* one line of a header, key: "value"
HeaderLine(key, value) == key \o value \o <<"\"", "\n">>

SampleRecord(t) ==
  [date |-> FormatDate(t), topic |-> <<"a">>, duration |-> <<"2">>,
   acquisition |-> <<"x">>, debt |-> <<>>, nextAction |-> <<"y">>]

\* the first n characters of a record document
Truncated(data, n) == SubSeq(Render(data), 1, n)

SampleDocs ==
  {Render(SampleRecord(t)) : t \in 0..MaxClock}
  \cup {<<>>}
  \cup {Truncated(SampleRecord(0), Len(KeyDate) + Len(FormatDate(0)) + 6)}
  \cup {<<"#", " ", "b", "\n">>
        \o HeaderLine(KeyTopic, <<"b">>) \o HeaderLine(KeyDuration, <<"x">>)}

SampleNames == {<<DigitChars[i + 1], ".", "m", "d">> : i \in 1..MaxFiles}

\* the contents a directory can have: any of the names, each with any document
SampleDirs == UNION {[S -> SampleDocs] : S \in SUBSET SampleNames}

InitCodec ==
  /\ now = 0
  /\ cfgFile = [kind |-> "json",
                val |-> [savePath |-> "p1", gitRepoUrl |-> ""]]
  /\ \E files \in SampleDirs :
       disk = [p \in Paths |->
                 [NoRepo(TRUE) EXCEPT
                    !.files = WithFile(files, <<"n", ".", "t", "x", "t">>, <<>>)]]
  /\ remoteMain = {}
  /\ resp = Response("start", DefaultConfig, NoData,
                     Return(TRUE, Undefined, Undefined),
                     <<>>, <<>>)
  /\ ops = 0
  /\ faults = 0
  /\ ui = MainScreen

\* one listing of the directory
NextCodec == ops = 0 /\ GetLogs({})

SpecCodec == InitCodec /\ [][NextCodec]_vars

\* ------------------------------------- an environment that refuses renames
\* The handlers where git init and git branch -M main may fail on any call
\* (the rename "because there is no commit yet", index.ts:254-259), as often
\* as the environment likes, and nothing else fails.
SetupFaults == {{}, {"init"}, {"branch"}}

RenameFaults == {{}, {"branch"}}

NextSetup ==
  \/ Tick
  \/ GetConfig
  \/ \E config \in Configs : \E F \in SetupFaults : SaveConfig(config, F)
  \/ \E data \in PathDatas(now) : \E F \in RenameFaults : SaveLog(data, F)
  \/ GetLogs({})

SpecSetup == Init /\ [][NextSetup]_vars

\* --------------------------------- a save directory inside another work tree
\* The handlers with no faults, where the user's save directory is (or will be
\* created as) a subdirectory of a repository the user already has, on either
\* branch name.
OuterBranches == {"master", "main"}

InitTree ==
  /\ now = 0
  /\ cfgFile = [kind |-> "missing", val |-> DefaultConfig]
  /\ \E e \in BOOLEAN : \E b \in OuterBranches :
       disk = [p \in Paths |-> [NoRepo(e) EXCEPT !.inTree = TRUE, !.branch = b]]
  /\ remoteMain = {}
  /\ resp = Response("start", DefaultConfig, NoData,
                     Return(TRUE, Undefined, Undefined),
                     <<>>, <<>>)
  /\ ops = 0
  /\ faults = 0
  /\ ui = MainScreen

NextTree ==
  \/ Tick
  \/ GetConfig
  \/ \E config \in Configs : SaveConfig(config, {})
  \/ \E data \in PathDatas(now) : SaveLog(data, {})
  \/ GetLogs({})

SpecTree == InitTree /\ [][NextTree]_vars

\* ------------------------------------------------------------ main screen
\* The renderer's MainScreen (App.tsx) on top of the save-log handler.  The
\* handler is taken in the two steps its awaits make visible from outside:
\* everything up to the push, and the push, whose end is the network's to
\* decide.  The other handlers are not called from this screen's buttons;
\* the history list (get-logs after every change of mode) only reads and is
\* not followed.  The configuration does not change while the screen is up.

\* timer sessions started in one run
MaxSessions == 2
\* presses of SAVE LOG in one run
MaxSaves == 2
\* setTimeLeft(min * 60)
SecondsPerMinute == 60

\* what the user types into the topic field (empty as mounted) and into the
\* minutes field, an <input type="number">
TypedTopics == {<<" ">>, <<"a", " ">>}

TypedMinutes == {<<"0">>, <<"1", ".", "5">>}

\* what the user types into the first text area of the review form; the other
\* two (debt, nextAction) have the same onChange code and are left empty
TypedAcquisition == <<"x">>

\* the configuration the screen runs under
ScreenConfig == [savePath |-> "p1", gitRepoUrl |-> "u1"]

\* handleStart: alert and return on a blank topic; start the timer when the
\* minutes parse to a positive number; otherwise nothing
handleStart(u) ==
  LET min == ParseInt(u.inputMinutes) IN
  IF Trim(u.topic) = <<>> THEN u
  ELSE IF ~min.nan /\ min.v > 0
    THEN [u EXCEPT !.timeLeft = min.v * SecondsPerMinute, !.mode = "running",
                   !.session = @ + 1]
  ELSE u

\* the timer effect, run when mode or timeLeft changed
timerEffect(u) ==
  IF u.mode # "running" THEN u
  ELSE IF u.timeLeft > 0 THEN [u EXCEPT !.timeLeft = @ - 1]
  ELSE [u EXCEPT !.mode = "review"]

\* the logData handleSave builds
logData(u, t) ==
  [date |-> FormatDate(t), topic |-> u.topic, duration |-> u.inputMinutes,
   acquisition |-> u.acquisition, debt |-> u.debt, nextAction |-> u.nextAction]

\* handleSave up to its await: the call goes out
handleSave(u, t) ==
  [u EXCEPT !.saves = @ + 1,
            !.calls = @ \cup {[id |-> u.saves + 1, session |-> u.session,
                               data |-> logData(u, t), stage |-> "sent",
                               tr |-> <<>>, t |-> 0]}]

\* an ABORT that keeps what was done so far by saving it
abort_Saves(u) ==
  [handleSave(u, 0) EXCEPT !.mode = "idle", !.aborted = @ \cup {u.session}]

\* the ABORT button: onClick={() => setMode('idle')}
abort(u) == [u EXCEPT !.mode = "idle", !.aborted = @ \cup {u.session}]

\* handleSave ending the review whatever save-log answered
afterSave_AlwaysIdle(u, result) ==
  [u EXCEPT !.acquisition = <<>>, !.debt = <<>>, !.nextAction = <<>>,
            !.mode = "idle"]

\* handleSave after its await: on success the reflection fields are cleared
\* and the screen goes idle, otherwise an alert and nothing else
afterSave(u, result) ==
  IF result.success
    THEN [u EXCEPT !.acquisition = <<>>, !.debt = <<>>, !.nextAction = <<>>,
                   !.mode = "idle"]
    ELSE u

\* the files a call wrote, for the session that made the call
Written(q, tr, t) ==
  IF Did(tr, "writeFile") THEN {<<q.session, FileName(t, q.data.topic)>>}
  ELSE {}

\* the main screen once the app is configured: save-config has set the
\* directory up, the remote is still empty, and the user has replaced the
\* default 25 minutes by 1
InitUI ==
  /\ now = 0
  /\ cfgFile = [kind |-> "json", val |-> ScreenConfig]
  /\ disk = [p \in Paths |->
               SaveConfigRun(ScreenConfig, NoRepo(FALSE), {}, {}).run.d]
  /\ remoteMain = {}
  /\ resp = Response("start", DefaultConfig, NoData,
                     Return(TRUE, Undefined, Undefined),
                     <<>>, <<>>)
  /\ ops = 0
  /\ faults = 0
  /\ ui = [MainScreen EXCEPT !.inputMinutes = <<"1">>]

\* a step of the renderer alone
Screen(u) ==
  /\ ui' = u
  /\ UNCHANGED <<now, cfgFile, disk, remoteMain, resp, ops, faults>>

\* onChange of the topic field, rendered in idle mode only (typing is followed
\* as long as a session can still be started)
SetTopic(v) ==
  /\ ui.mode = "idle" /\ v # ui.topic
  /\ ui.session < MaxSessions
  /\ Screen([ui EXCEPT !.topic = v])

\* onChange of the minutes field, rendered in idle mode only
SetMinutes(v) ==
  /\ ui.mode = "idle" /\ v # ui.inputMinutes
  /\ ui.session < MaxSessions
  /\ Screen([ui EXCEPT !.inputMinutes = v])

\* onChange of the acquisition text area of the review form
SetAcquisition(v) ==
  ui.mode = "review" /\ v # ui.acquisition /\ Screen([ui EXCEPT !.acquisition = v])

\* the START button, rendered in idle mode only
HandleStart ==
  /\ ui.mode = "idle"
  /\ ui.session < MaxSessions
  /\ Screen(handleStart(ui))

\* the timeout of the timer effect fires
TimerTick == ui.mode = "running" /\ ui.timeLeft > 0 /\ Screen(timerEffect(ui))

\* the timer effect finds timeLeft at 0
TimerDone == ui.mode = "running" /\ ui.timeLeft = 0 /\ Screen(timerEffect(ui))

\* the ABORT button, rendered in running mode only
Abort == ui.mode = "running" /\ Screen(abort(ui))

\* the SAVE LOG button, rendered in review mode only (and never disabled)
HandleSave ==
  /\ ui.mode = "review"
  /\ ui.saves < MaxSaves
  /\ Screen(handleSave(ui, now))

\* save-log runs for call q up to the push.  When it ends before the push
\* (an error, or no remote configured) it returns and handleSave goes on;
\* otherwise the push is out and the call waits for it
SaveLogStarts(q, F) ==
  LET config == loadConfig(cfgFile)
      l == SaveLogRun(config, q.data, disk[config.savePath], remoteMain, F, now).local
      pushes == Running(l) /\ config.gitRepoUrl # ""
      out == SL_Response(l, PathJoin(config.savePath, FileName(now, q.data.topic)))
      rest == ui.calls \ {q}
      docs == ui.docs \cup Written(q, l.tr, now)
  IN  /\ q.stage = "sent"
      /\ F = l.hit
      /\ disk' = [disk EXCEPT ![config.savePath] = l.d]
      /\ faults' = faults + Cardinality(F)
      /\ IF pushes
           THEN /\ ui' = [ui EXCEPT !.docs = docs,
                                    !.calls = rest \cup {[q EXCEPT !.stage = "push",
                                                                   !.tr = l.tr,
                                                                   !.t = now]}]
                /\ UNCHANGED <<resp, ops>>
           ELSE /\ ui' = [afterSave(ui, out) EXCEPT !.docs = docs, !.calls = rest]
                /\ Record(Response("saveLog", config, q.data, out, <<>>, l.tr))
      /\ UNCHANGED <<now, cfgFile, remoteMain>>

\* the push of call q ends, well or with an error; save-log returns and
\* handleSave goes on
PushReturns(q, F) ==
  LET config == loadConfig(cfgFile)
      filePath == PathJoin(config.savePath, FileName(q.t, q.data.topic))
      r == SL_Push([StartRun(disk[config.savePath], remoteMain) EXCEPT !.tr = q.tr],
                   config, filePath, F)
      out == SL_Response(r, filePath)
  IN  /\ q.stage = "push"
      /\ F = r.hit
      /\ disk' = [disk EXCEPT ![config.savePath] = r.d]
      /\ remoteMain' = r.rm
      /\ faults' = faults + Cardinality(F)
      /\ ui' = [afterSave(ui, out) EXCEPT !.calls = ui.calls \ {q}]
      /\ Record(Response("saveLog", config, q.data, out, <<>>, r.tr))
      /\ UNCHANGED <<now, cfgFile>>

\* what can go wrong before the push, and at it
LocalFaults == {{}, {"commit"}}

NetworkFaults == {{}, {"push"}}

\* the main process runs the handler of a call that came in
HandlerRuns == \E q \in ui.calls : \E F \in FaultSets(LocalFaults) : SaveLogStarts(q, F)

NextUI ==
  \/ Tick
  \/ \E v \in TypedTopics : SetTopic(v)
  \/ \E v \in TypedMinutes : SetMinutes(v)
  \/ HandleStart
  \/ TimerTick
  \/ TimerDone
  \/ Abort
  \/ SetAcquisition(TypedAcquisition)
  \/ HandleSave
  \/ HandlerRuns
  \/ \E q \in ui.calls : \E F \in FaultSets(NetworkFaults) : PushReturns(q, F)

SpecUI == InitUI /\ [][NextUI]_vars

\* One user who has typed a topic and neither aborts nor types again, with
\* the scheduling the runtime guarantees to the timer: a timeout that is due
\* fires.  Nothing makes the user press a button, and nothing makes the
\* network answer: git push is awaited with no timeout (index.ts:266), so the
\* step that ends a push is the network's alone and gets no fairness.
InitHang ==
  /\ now = 0
  /\ cfgFile = [kind |-> "json", val |-> ScreenConfig]
  /\ disk = [p \in Paths |->
               SaveConfigRun(ScreenConfig, NoRepo(FALSE), {}, {}).run.d]
  /\ remoteMain = {}
  /\ resp = Response("start", DefaultConfig, NoData,
                     Return(TRUE, Undefined, Undefined),
                     <<>>, <<>>)
  /\ ops = 0
  /\ faults = 0
  /\ ui = [MainScreen EXCEPT !.topic = <<"a", " ">>, !.inputMinutes = <<"1">>]

NextHang ==
  \/ HandleStart
  \/ TimerTick
  \/ TimerDone
  \/ HandleSave
  \/ HandlerRuns
  \/ \E q \in ui.calls : \E F \in FaultSets(NetworkFaults) : PushReturns(q, F)

SpecHang ==
  /\ InitHang /\ [][NextHang]_vars
  /\ WF_vars(TimerTick) /\ WF_vars(TimerDone)

\* ------------------------------------------------------------ review form
\* The main screen from the moment a first session's timer has run out: the
\* user fills in any of the three fields of the review form and presses SAVE
\* LOG, up to the point where a next session would start.  The state at the
\* start is the one SpecUI reaches by typing the topic, pressing START and
\* letting the minute pass.  The clock is not followed: the time of a save
\* decides the name of the file only, which the screen never looks at.
TypedDebt == <<"y">>

TypedNextAction == <<"z">>

InitReview ==
  /\ now = 0
  /\ cfgFile = [kind |-> "json", val |-> ScreenConfig]
  /\ disk = [p \in Paths |->
               SaveConfigRun(ScreenConfig, NoRepo(FALSE), {}, {}).run.d]
  /\ remoteMain = {}
  /\ resp = Response("start", DefaultConfig, NoData,
                     Return(TRUE, Undefined, Undefined),
                     <<>>, <<>>)
  /\ ops = 0
  /\ faults = 0
  /\ ui = timerEffect([handleStart([MainScreen EXCEPT !.topic = <<"a", " ">>,
                                                      !.inputMinutes = <<"1">>])
                         EXCEPT !.timeLeft = 0])

\* onChange of the debt text area of the review form
SetDebt(v) ==
  ui.mode = "review" /\ v # ui.debt /\ Screen([ui EXCEPT !.debt = v])

\* onChange of the next-action field of the review form
SetNextAction(v) ==
  ui.mode = "review" /\ v # ui.nextAction /\ Screen([ui EXCEPT !.nextAction = v])

NextReview ==
  \/ SetAcquisition(TypedAcquisition)
  \/ SetDebt(TypedDebt)
  \/ SetNextAction(TypedNextAction)
  \/ HandleSave
  \/ HandlerRuns
  \/ \E q \in ui.calls : \E F \in FaultSets(NetworkFaults) : PushReturns(q, F)

SpecReview == InitReview /\ [][NextReview]_vars

\* ================================================================== claims
SaveLogDone == resp.op = "saveLog"

SaveConfigDone == resp.op = "saveConfig"

NonEmpty(text) == Present(text) /\ Len(text) > 0

\* the file name of a path made by PathJoin
FileOf(path) == SubSeq(path, 3, Len(path))

\* the step that failed was the last one the call ran
LastStep(tr, step) == tr # <<>> /\ tr[Len(tr)].step = step /\ ~tr[Len(tr)].ok

\* C1: when the push of save-log fails with a remote URL configured, the
\* response is success:true with the written path and a non-empty warning, and
\* the record file and its commit made in that call are still there
C1_PushFailureKeepsLocalSave ==
  (SaveLogDone /\ resp.config.gitRepoUrl # "" /\ Failed(resp.tr, "push")) =>
    /\ resp.success
    /\ resp.path = PathJoin(resp.config.savePath, FileOf(resp.path))
    /\ NonEmpty(resp.error)
    /\ Did(resp.tr, "writeFile") /\ Did(resp.tr, "commit")
    /\ LET d == disk[resp.config.savePath] IN
         /\ FileOf(resp.path) \in DOMAIN d.files
         /\ d.files[FileOf(resp.path)] = Render(resp.data)
         /\ FileOf(resp.path) \in DOMAIN d.head
         /\ d.head[FileOf(resp.path)] = Render(resp.data)

C1_Witness ==
  /\ SaveLogDone /\ resp.config.gitRepoUrl # ""
  /\ \E i \in 1..Len(resp.tr) :
       resp.tr[i] = Broke("push", StepError("push"))

\* C2: with no savePath persisted, save-log answers {success:false,
\* error:"Save path is not configured."} and runs no step at all
C2_NotConfiguredResponse ==
  (SaveLogDone /\ resp.config.savePath = "") =>
    /\ ~resp.success
    /\ resp.error = <<"Save path is not configured.">>
    /\ resp.tr = <<>>

\* C3: in save-log the failure of a required step (mkdir, init, the write,
\* add, commit) is the last step of the call (so no push follows) and the
\* response is success:false with an error message
C3_RequiredFailureAborts ==
  SaveLogDone =>
    \A i \in 1..Len(resp.tr) :
      (resp.tr[i].step \in {"mkdir", "init", "writeFile", "add", "commit"}
         /\ ~resp.tr[i].ok) =>
        /\ i = Len(resp.tr)
        /\ ~Tried(resp.tr, "push")
        /\ ~resp.success
        /\ NonEmpty(resp.error)

C3_Witness ==
  SaveLogDone /\ Did(resp.tr, "writeFile") /\ Failed(resp.tr, "commit")

\* C5: a save-log response is either success:true with a path, given only
\* after the write and the commit of that call completed, or success:false
\* with a non-empty error and no path
C5_TwoResponseShapes ==
  SaveLogDone =>
    \/ /\ resp.success
       /\ Present(resp.path)
       /\ Did(resp.tr, "writeFile") /\ Did(resp.tr, "commit")
       /\ Present(resp.error) => NonEmpty(resp.error)
    \/ /\ ~resp.success
       /\ NonEmpty(resp.error)
       /\ ~Present(resp.path)

C5_Witness == SaveLogDone /\ resp.success /\ NonEmpty(resp.error)

\* C6: a failure of addConfig user.name / user.email never makes save-config
\* or save-log fail: the call goes on to its remaining steps
C6_IdentityFailureNotFatal ==
  (SaveLogDone \/ SaveConfigDone) =>
    /\ Failed(resp.tr, "userName") =>
         resp.success \/ ~LastStep(resp.tr, "userName")
    /\ Failed(resp.tr, "userEmail") =>
         resp.success \/ ~LastStep(resp.tr, "userEmail")

\* C7: a failure of git branch -M main never makes save-config or save-log
\* fail: the call goes on to its remaining steps
C7_BranchFailureNotFatal ==
  ((SaveLogDone \/ SaveConfigDone) /\ Failed(resp.tr, "branch")) =>
    resp.success \/ ~LastStep(resp.tr, "branch")

\* a step of the model that is a save-log call answering success:true
SaveLogSucceeds == ops' = ops + 1 /\ resp'.op = "saveLog" /\ resp'.success

\* the entry of the written file is in the list, with the record's topic and
\* duration
HasSavedEntry(logs, r) ==
  \E i \in 1..Len(logs) :
    /\ logs[i].id = FileOf(r.path)
    /\ logs[i].topic = r.data.topic
    /\ logs[i].duration = ParseInt(r.data.duration)

\* the lists get-logs can return before and after a step of the model, one
\* for each order the directory can be read in
ListsBefore ==
  {GetLogsResult(cfgFile, disk, o) : o \in DirOrders(cfgFile, disk)}

ListsAfter ==
  {GetLogsResult(cfgFile', disk', o) : o \in DirOrders(cfgFile', disk')}

FetchFailedOtherwise ==
  \E i \in 1..Len(resp.tr) :
    /\ resp.tr[i].step = "fetch" /\ ~resp.tr[i].ok
    /\ ~Includes(resp.tr[i].msg, "couldn't find remote ref")

FetchFailedNoRef ==
  \E i \in 1..Len(resp.tr) :
    /\ resp.tr[i].step = "fetch" /\ ~resp.tr[i].ok
    /\ Includes(resp.tr[i].msg, "couldn't find remote ref")

\* C8: a save-config or save-log that returns success:true after a
\* best-effort step failed (identity, branch rename, fetch for another reason
\* than a missing remote ref, push) carries a non-empty warning
C8_EveryBestEffortFailureWarned ==
  ((SaveLogDone \/ SaveConfigDone) /\ resp.success
     /\ \/ Failed(resp.tr, "userName") \/ Failed(resp.tr, "userEmail")
        \/ Failed(resp.tr, "branch") \/ Failed(resp.tr, "push")
        \/ FetchFailedOtherwise) =>
    NonEmpty(resp.error)

\* C8 as amended: a failed push (save-log) and a fetch that failed for another
\* reason than a missing remote ref (save-config) are reported in error; a
\* failed identity step of save-config and a failed branch rename of save-log
\* are logged only, the success:true response has no warning for them
C8_OnlyFetchAndPushWarned ==
  /\ (SaveLogDone /\ resp.success /\ Failed(resp.tr, "push")) =>
       NonEmpty(resp.error)
  /\ (SaveConfigDone /\ resp.success /\ FetchFailedOtherwise) =>
       NonEmpty(resp.error)
  /\ (SaveLogDone /\ resp.success /\ Failed(resp.tr, "branch")
        /\ ~Failed(resp.tr, "push")) => ~Present(resp.error)
  /\ (SaveConfigDone /\ resp.success /\ ~Failed(resp.tr, "fetch")
        /\ (Failed(resp.tr, "userName") \/ Failed(resp.tr, "userEmail"))) =>
       ~Present(resp.error)

C8_Witness ==
  /\ SaveLogDone /\ resp.success
  /\ Failed(resp.tr, "branch") /\ ~Tried(resp.tr, "push")

\* C9: in save-config with a remote URL, when the fetch fails the response is
\* success:true, without error for a missing remote ref and with a non-empty
\* warning for any other error, and the configuration stays persisted
C9_FetchFailureIsWarning ==
  (SaveConfigDone /\ resp.config.gitRepoUrl # "" /\ Failed(resp.tr, "fetch")) =>
    /\ resp.success
    /\ FetchFailedNoRef => ~Present(resp.error)
    /\ FetchFailedOtherwise => NonEmpty(resp.error)
    /\ cfgFile.kind = "json" /\ loadConfig(cfgFile) = resp.config

C9_Witness == SaveConfigDone /\ FetchFailedOtherwise /\ NonEmpty(resp.error)

\* a step of the model that is a save-config call whose config write failed
ConfigWriteFails ==
  ops' = ops + 1 /\ resp'.op = "saveConfig" /\ Failed(resp'.tr, "writeConfig")

\* C10: when the write of the configuration fails, save-config returns
\* success:false with an error, later loads see the configuration persisted
\* before, and no directory or git step runs
C10_FailedWriteKeepsConfig ==
  [][ConfigWriteFails =>
       /\ ~resp'.success /\ NonEmpty(resp'.error)
       /\ loadConfig(cfgFile') = loadConfig(cfgFile)
       /\ Len(resp'.tr) = 1 /\ disk' = disk]_vars

\* C10 as amended: later loads see the configuration persisted before, or the
\* default configuration when the failed write had already truncated the file
C10_FailedWriteKeepsConfigOrDefault ==
  [][ConfigWriteFails =>
       /\ ~resp'.success /\ NonEmpty(resp'.error)
       /\ loadConfig(cfgFile') \in {loadConfig(cfgFile), DefaultConfig}
       /\ cfgFile' # cfgFile => cfgFile'.kind = "corrupt"
       /\ Len(resp'.tr) = 1 /\ disk' = disk]_vars

C10_Witness ==
  /\ SaveConfigDone /\ Failed(resp.tr, "writeConfig")
  /\ cfgFile.kind = "json" /\ cfgFile.val # resp.config

\* a step of the model that is a save-log or a get-logs call
LogStep == ops' = ops + 1 /\ resp'.op \in {"saveLog", "getLogs"}

\* what get-logs returns for the configuration c, by the order of the directory
ListsOf(c, dk) ==
  IF c.savePath # "" /\ dk[c.savePath].exists
    THEN {ReadLogs(dk[c.savePath], o) : o \in Orders(MdFiles(dk[c.savePath]))}
    ELSE {<<>>}

GetConfigDone == resp.op = "getConfig"

GetLogsDone == resp.op = "getLogs"

\* C12: loading the configuration never propagates an error: get-config
\* always answers an object with the two string fields savePath and
\* gitRepoUrl, and whenever the file is missing or reading or parsing it
\* throws, the configuration a handler works with is the default
C12_LoadFailsSoft ==
  /\ GetConfigDone =>
       /\ resp.success /\ ~Present(resp.error)
       /\ resp.config \in Configs
  /\ ((GetConfigDone \/ SaveLogDone \/ GetLogsDone) /\ cfgFile.kind # "json") =>
       resp.config = DefaultConfig

C12_Witness == GetConfigDone /\ cfgFile.kind = "corrupt"

\* a step of the model that is a get-logs call
GetLogsStep == ops' = ops + 1 /\ resp'.op = "getLogs"

\* the directory of the persisted configuration cannot be listed: no savePath
\* is set, or the directory at savePath does not exist
NothingToList ==
  LET c == IF cfgFile.kind = "json" THEN cfgFile.val ELSE DefaultConfig
  IN  c.savePath = "" \/ ~disk[c.savePath].exists

\* C13: when savePath is unset or the directory at savePath does not exist,
\* get-logs returns the empty list, without an error, without reading
\* anything, and leaves every directory as it was: none created, no
\* repository initialized
C13_EmptyWhenNothingToList ==
  [][(GetLogsStep /\ NothingToList) =>
       /\ resp'.logs = <<>>
       /\ resp'.success /\ ~Present(resp'.error)
       /\ resp'.tr = <<>>
       /\ disk' = disk
       /\ \A p \in DOMAIN disk : disk[p].exists = disk'[p].exists
                                 /\ disk[p].git = disk'[p].git]_vars

\* get-logs answered [] for a savePath that is set while its directory is
\* still missing
C13_Witness ==
  /\ GetLogsDone /\ resp.logs = <<>>
  /\ resp.config.savePath # "" /\ ~disk[resp.config.savePath].exists

\* C14: get-logs never fails: whatever the save directory holds, truncated
\* record files included, and whether or not reading the directory or a file
\* throws, the caller gets a list and no error; the list has one entry for
\* each .md file of the directory, or is empty when a read threw
C14_GetLogsNeverFails ==
  GetLogsDone =>
    /\ resp.success /\ ~Present(resp.error)
    /\ LET md == IF resp.config.savePath = "" THEN {}
                 ELSE MdFiles(disk[resp.config.savePath])
       IN  /\ \A i \in 1..Len(resp.logs) : resp.logs[i].id \in md
           /\ \A i, j \in 1..Len(resp.logs) :
                resp.logs[i].id = resp.logs[j].id => i = j
           /\ Len(resp.logs) \in {0, Cardinality(md)}
           /\ (Failed(resp.tr, "readdir") \/ Failed(resp.tr, "readFile")) =>
                resp.logs = <<>>
           /\ (resp.tr = <<Done("readdir")>>) => Len(resp.logs) = Cardinality(md)

\* reading a record file threw while the directory holds records
C14_Witness ==
  /\ GetLogsDone /\ Failed(resp.tr, "readFile")
  /\ MdFiles(disk[resp.config.savePath]) # {}
  /\ resp.logs = <<>>

\* the entry has a date that new Date() can read
Dated(e) == ~ParseDate(e.date).nan

\* C15: the list get-logs returns is sorted by date descending, records
\* without a readable date included: the date of an entry is not older than
\* the date of the next entry that has one
C15_SortedByDateDescending ==
  GetLogsDone =>
    \A i, j \in 1..Len(resp.logs) :
      (/\ i < j
       /\ Dated(resp.logs[i]) /\ Dated(resp.logs[j])
       /\ \A k \in (i + 1)..(j - 1) : ~Dated(resp.logs[k])) =>
        ParseDate(resp.logs[i].date).v >= ParseDate(resp.logs[j].date).v

\* the records save-log can be given
AllDatas == UNION {LogDatas(t) : t \in 0..MaxClock}

\* C16: round trip: the entry get-logs makes of a document rendered from a
\* record has the record's date, topic and duration, and carries its
\* acquisition text unchanged
C16_RoundTrip ==
  GetLogsDone =>
    \A i \in 1..Len(resp.logs) : \A data \in AllDatas :
      (disk[resp.config.savePath].files[resp.logs[i].id] = Render(data)) =>
        /\ resp.logs[i].date = data.date
        /\ resp.logs[i].topic = data.topic
        /\ resp.logs[i].duration = ParseInt(data.duration)
        /\ "acquisition" \in DOMAIN resp.logs[i]
        /\ resp.logs[i].acquisition = data.acquisition

\* text made of decimal digits only
IsNumber(text) == text # <<>> /\ \A k \in 1..Len(text) : text[k] \in Digits

\* C17: for every .md file of the directory, a header field that is absent
\* or malformed comes out as its zero value, the empty string for date and
\* topic and 0 for the duration, and the fields that are there are extracted
C17_MissingFieldsAreZero ==
  GetLogsDone =>
    \A i \in 1..Len(resp.logs) :
      LET content == disk[resp.config.savePath].files[resp.logs[i].id]
          date == Match(content, KeyDate)
          topic == Match(content, KeyTopic)
          duration == Match(content, KeyDuration)
      IN  /\ resp.logs[i].date = IF date.found THEN date.text ELSE <<>>
          /\ resp.logs[i].topic = IF topic.found THEN topic.text ELSE <<>>
          /\ resp.logs[i].duration =
               IF duration.found /\ IsNumber(duration.text)
                 THEN Num(DigitsValue(duration.text))
                 ELSE Num(0)

\* the document was rendered, in this second, from a record whose topic
\* sanitizes to the same text as topic
SameSecondSameTopic(content, topic) ==
  \E data \in LogDatas(now) :
    content = Render(data) /\ SafeTopic(data.topic) = SafeTopic(topic)

\* C18: a successful save-log adds one record file and leaves every other
\* file as it was, so two successful saves give two files and two entries,
\* unless the name it generates is already there; a record written by an
\* earlier save has that name exactly when it was saved in the same second
\* with the same sanitized topic, and then the new document replaces it
C18_DistinctFilesUnlessSameName ==
  [][SaveLogSucceeds =>
       LET p == resp'.config.savePath
           f == FileOf(resp'.path)
           old == disk[p].files
           new == disk'[p].files
       IN  /\ f = FileName(now, resp'.data.topic)
           /\ DOMAIN new = DOMAIN old \cup {f}
           /\ new[f] = Render(resp'.data)
           /\ \A g \in DOMAIN old \ {f} : new[g] = old[g]
           /\ f \notin DOMAIN old =>
                Cardinality(MdFiles(disk'[p])) = Cardinality(MdFiles(disk[p])) + 1
           /\ f \in DOMAIN old =>
                /\ Cardinality(MdFiles(disk'[p])) = Cardinality(MdFiles(disk[p]))
                /\ old[f] = <<>> \/ SameSecondSameTopic(old[f], resp'.data.topic)
           /\ \A g \in DOMAIN old :
                SameSecondSameTopic(old[g], resp'.data.topic) => g = f]_vars

\* two records with the same topic and duration, saved in different seconds,
\* are two files
C18_Witness ==
  /\ SaveLogDone /\ resp.success /\ faults = 0
  /\ \E f, g \in MdFiles(disk[resp.config.savePath]) :
       /\ f # g
       /\ \E data \in AllDatas :
            /\ disk[resp.config.savePath].files[f] = Render(data)
            /\ disk[resp.config.savePath].files[g] =
                 Render([data EXCEPT !.date = resp.data.date])
            /\ data.date # resp.data.date

\* savePath/<YYYY-MM-DD>/<HH-MM-SS>_<sanitized-topic>.md
DayPath(dir, t, topic) ==
  <<dir, "/">> \o Pad2(t \div DayLen) \o <<"/">> \o Pad2(t % DayLen)
  \o <<"_">> \o SafeTopic(topic) \o <<".", "m", "d">>

\* C19: save-log writes the record to savePath/<date>/<time>_<topic>.md: in
\* the subdirectory of savePath named by the day, under the time of day and
\* the topic with every character that is no letter or digit replaced
C19_PerDaySubdirectory ==
  (SaveLogDone /\ resp.success) =>
    resp.path = DayPath(resp.config.savePath, now, resp.data.topic)

\* the commit of the call found nothing to commit
FoundNothingToCommit ==
  \E i \in 1..Len(resp.tr) :
    resp.tr[i].step = "commit" /\ resp.tr[i].msg = <<"nothing to commit">>

\* C20: when the commit of save-log finds nothing to commit, the written
\* document being what is committed already, save-log still returns
\* success:true with the path, and the record is on disk and in the history
C20_NothingToCommitTolerated ==
  (SaveLogDone /\ FoundNothingToCommit) =>
    /\ resp.success
    /\ Present(resp.path)
    /\ LET d == disk[resp.config.savePath] IN
         /\ FileOf(resp.path) \in DOMAIN d.head
         /\ d.head[FileOf(resp.path)] = Render(resp.data)
         /\ d.files = d.head

C20_Witness ==
  /\ SaveLogDone /\ FoundNothingToCommit
  /\ ~Present(resp.error)
  /\ Did(resp.tr, "writeFile") /\ Did(resp.tr, "add")

\* the steps that talk to or change a remote
RemoteSteps == {"getRemotes", "setUrl", "addRemote", "fetch", "push"}

\* C21: with an empty gitRepoUrl no remote operation is performed: save-config
\* neither reads, adds nor changes the remote origin and does not fetch,
\* save-log does not push, and a save-log that succeeds carries no warning
C21_LocalOnlyNoRemoteOperation ==
  ((SaveConfigDone \/ SaveLogDone) /\ resp.config.gitRepoUrl = "") =>
    /\ \A i \in 1..Len(resp.tr) : resp.tr[i].step \notin RemoteSteps
    /\ resp.success => ~Present(resp.error)

\* a local-only save-log that succeeded in a working copy that still has the
\* remote origin of an earlier configuration
C21_Witness ==
  /\ SaveLogDone /\ resp.success /\ resp.config.gitRepoUrl = ""
  /\ disk[resp.config.savePath].origin # ""

\* C25: whenever save-log attempts a push with a non-empty persisted
\* gitRepoUrl, the working copy at the persisted savePath has a remote origin
\* whose URL is that gitRepoUrl
C25_OriginIsConfiguredUrlAtPush ==
  (SaveLogDone /\ Tried(resp.tr, "push") /\ resp.config.gitRepoUrl # "") =>
    disk[resp.config.savePath].origin = resp.config.gitRepoUrl

\* a save-log or save-config with a save directory that returned success:true
SavedWithSuccess ==
  (SaveLogDone \/ SaveConfigDone) /\ resp.success /\ resp.config.savePath # ""

FirstTry(tr, step) ==
  IF Tried(tr, step)
    THEN CHOOSE i \in 1..Len(tr) :
           tr[i].step = step /\ \A j \in 1..(i - 1) : tr[j].step # step
    ELSE 0

\* whether step succeeded at a position before i
DidBefore(tr, step, i) == \E j \in 1..(i - 1) : tr[j].step = step /\ tr[j].ok

\* C27: in save-log the document write and the commit are attempted only
\* after, in the same call, the directory existed or was created, the
\* repository existed or was initialized, and user.name and user.email were
\* both set with success
C27_WriteOnlyAfterSetup ==
  SaveLogDone =>
    \A i \in 1..Len(resp.tr) :
      resp.tr[i].step \in {"writeFile", "add", "commit"} =>
        /\ \A j \in 1..(i - 1) :
             resp.tr[j].step \in {"mkdir", "init", "userName", "userEmail"}
               => resp.tr[j].ok
        /\ DidBefore(resp.tr, "userName", i)
        /\ DidBefore(resp.tr, "userEmail", i)
        /\ disk[resp.config.savePath].exists
        /\ disk[resp.config.savePath].git
        /\ disk[resp.config.savePath].ident = {"user.name", "user.email"}

\* a save-log that created the directory and the repository itself, set the
\* identity, and then wrote and committed
C27_Witness ==
  /\ SaveLogDone
  /\ Did(resp.tr, "mkdir") /\ Did(resp.tr, "init")
  /\ Did(resp.tr, "writeFile") /\ Did(resp.tr, "commit")
  /\ FirstTry(resp.tr, "userEmail") < FirstTry(resp.tr, "writeFile")

\* the call whose response r is got past ensure-repository without running
\* git init: it took the save directory for an existing repository
TreatedAsRepository(r) ==
  /\ r.op \in {"saveConfig", "saveLog"}
  /\ ~Tried(r.tr, "init")
  /\ Tried(r.tr, "userName")

\* C29: once a save-config or save-log has treated savePath as an existing
\* repository, the next operation on the same savePath does not run git init
C29_NoInitAfterTreatedAsRepository ==
  [][(TreatedAsRepository(resp)
        /\ resp'.config.savePath = resp.config.savePath)
       => ~Tried(resp'.tr, "init")]_vars

\* the save-log call with number i has gone out and has not returned
InFlight(i) == \E q \in ui.calls : q.id = i

\* the save-log call with number i has got as far as its push and waits for it
Pushing(i) == \E q \in ui.calls : q.id = i /\ q.stage = "push"

\* C22: a save-log call that waits for its push returns a response in the end,
\* whether or not the network ever answers
C22_EverySaveReturns == \A i \in 1..MaxSaves : Pushing(i) ~> ~InFlight(i)

\* C23: a save-log call goes out only in review mode; review mode is entered
\* only from a running timer that has reached zero; ABORT takes a running
\* timer to idle without a save-log call and without touching the disk; and
\* no call and no written file belongs to an aborted session
C23_SaveOnlyAfterCompletedTimer ==
  /\ [](/\ \A q \in ui.calls : q.session \notin ui.aborted
        /\ \A d \in ui.docs : d[1] \notin ui.aborted)
  /\ [][/\ ui'.saves # ui.saves => ui.mode = "review"
        /\ (ui'.mode = "review" /\ ui.mode # "review")
             => (ui.mode = "running" /\ ui.timeLeft = 0)
        /\ ui'.aborted # ui.aborted
             => /\ ui.mode = "running" /\ ui'.mode = "idle"
                /\ ui'.saves = ui.saves /\ ui'.calls = ui.calls
                /\ UNCHANGED <<disk, remoteMain, resp, ops>>]_vars

\* one session was aborted, another ran to review and had its record written
C23_Witness == ui.aborted # {} /\ ui.docs # {}

\* C24: at most one save-log call is in flight at any time
C24_OneSaveInFlight == Cardinality(ui.calls) <= 1

\* C28: for each timer session at most one record document is written
C28_OneDocumentPerSession ==
  \A n \in 1..MaxSessions : Cardinality({d \in ui.docs : d[1] = n}) <= 1

\* text that is the decimal notation of an integer greater than 0
DenotesPositiveInteger(s) ==
  /\ s # <<>>
  /\ \A i \in 1..Len(s) : s[i] \in Digits
  /\ DigitsValue(s) > 0

\* C30: every record passed to save-log has a topic that is not blank and a
\* duration that denotes an integer greater than 0
C30_RecordsAreValid ==
  \A q \in ui.calls :
    Trim(q.data.topic) # <<>> /\ DenotesPositiveInteger(q.data.duration)

\* a save-config whose configuration was written and whose git setup failed
GitSetupFailed(r) ==
  r.op = "saveConfig" /\ Did(r.tr, "writeConfig") /\ ~r.success

\* C31: save-config writes the configuration before any setup step and never
\* puts the old one back: after a call whose setup failed (success:false,
\* "Git setup failed") its argument is the persisted configuration, nothing
\* but a later save-config changes it, and every get-config, save-log and
\* get-logs works with the persisted configuration
C31_ConfigPersistedBeforeSetup ==
  /\ [](GitSetupFailed(resp) =>
          /\ Head(resp.error) = "Git setup failed: "
          /\ resp.tr[1].step = "writeConfig" /\ Len(resp.tr) > 1
          /\ cfgFile = [kind |-> "json", val |-> resp.config])
  /\ [][/\ cfgFile' # cfgFile => resp'.op = "saveConfig"
        /\ (ops' = ops + 1 /\ resp'.op \in {"getConfig", "saveLog", "getLogs"}) =>
             /\ resp'.config = loadConfig(cfgFile)
             /\ \A p \in DOMAIN disk :
                  p # loadConfig(cfgFile).savePath => disk'[p] = disk[p]]_vars

\* a save-log that had to initialize the repository of the configured
\* directory itself: the save-config that persisted the directory failed
\* before or at its own git init
C31_Witness ==
  /\ SaveLogDone /\ Did(resp.tr, "init")
  /\ cfgFile = [kind |-> "json", val |-> resp.config]
  /\ resp.config.savePath # ""

\* a step of the model that is a save-log call which wrote its document and
\* then failed at git add or git commit
CommitStageFails ==
  /\ ops' = ops + 1 /\ resp'.op = "saveLog"
  /\ Did(resp'.tr, "writeFile")
  /\ Failed(resp'.tr, "add") \/ Failed(resp'.tr, "commit")

\* C32: a save-log that fails at staging or at the commit after it wrote the
\* document answers success:false with an error and is not undone: the
\* document is on disk with the record's content, the call committed and
\* pushed nothing (the document is in no commit unless a file of the same
\* name was committed before), every list get-logs can return right after
\* has the document's entry, and no call ever removes a file
C32_FailedSaveNotUndone ==
  [][/\ CommitStageFails =>
          LET p == resp'.config.savePath
              file == FileName(now, resp'.data.topic)
          IN  /\ ~resp'.success /\ NonEmpty(resp'.error)
              /\ file \in DOMAIN disk'[p].files
              /\ disk'[p].files[file] = Render(resp'.data)
              /\ disk'[p].head = disk[p].head
              /\ file \notin DOMAIN disk[p].files => file \notin DOMAIN disk'[p].head
              /\ remoteMain' = remoteMain
              /\ \A after \in ListsAfter :
                   \E i \in 1..Len(after) : after[i].id = file
     /\ \A p \in DOMAIN disk :
          DOMAIN disk[p].files \subseteq DOMAIN disk'[p].files]_vars

\* get-logs answering with the entry of a complete document that is in no
\* commit: the save-log that wrote it failed at add or commit
C32_Witness ==
  /\ resp.op = "getLogs" /\ resp.config.savePath # ""
  /\ \E i \in 1..Len(resp.logs) :
       LET d == disk[resp.config.savePath] IN
       /\ resp.logs[i].id \in DOMAIN d.files
       /\ d.files[resp.logs[i].id] # <<>>
       /\ resp.logs[i].id \notin DOMAIN d.head

\* a step of the model in which save-log answers a call of the main screen
SaveAnswered == ops' = ops + 1 /\ resp'.op = "saveLog"

\* the three fields of the review form
Reflection(u) == <<u.acquisition, u.debt, u.nextAction>>

\* C33: a success:false answer of save-log leaves the screen as it is, in
\* review mode when it was there, with topic, duration, acquisition, debt and
\* nextAction unchanged, so that SAVE LOG sends the same record again; a
\* success:true answer empties the three reflection fields and puts the
\* screen in idle mode; and nothing else takes the screen out of review mode
\* or empties a reflection field
C33_FailedSaveKeepsReview ==
  [][/\ (SaveAnswered /\ ~resp'.success) =>
          /\ ui'.mode = ui.mode
          /\ ui'.topic = ui.topic /\ ui'.inputMinutes = ui.inputMinutes
          /\ Reflection(ui') = Reflection(ui)
          /\ logData(ui', now') = logData(ui, now)
     /\ (SaveAnswered /\ resp'.success) =>
          /\ ui'.mode = "idle"
          /\ Reflection(ui') = <<<<>>, <<>>, <<>>>>
          /\ ui'.topic = ui.topic /\ ui'.inputMinutes = ui.inputMinutes
     /\ (ui.mode = "review" /\ ui'.mode # "review") =>
          SaveAnswered /\ resp'.success
     /\ (\E k \in 1..3 : Reflection(ui)[k] # <<>> /\ Reflection(ui')[k] = <<>>) =>
          SaveAnswered /\ resp'.success]_vars

\* save-log has answered success:false and the review form is still up with
\* all three fields filled in
C33_Witness ==
  /\ SaveLogDone /\ ~resp.success
  /\ ui.mode = "review"
  /\ \A k \in 1..3 : Reflection(ui)[k] # <<>>
  /\ resp.data = logData(ui, now)

====
